---------------------------- MODULE Spec2Model ----------------------------
(***************************************************************************)
(* A model of the Janggi engine bridge (engine/src/c_api.cpp): the four    *)
(* exported operations stockfish_init, stockfish_command,                  *)
(* stockfish_analyze and stockfish_cleanup, the globals they share, the    *)
(* mutex that serialises them and the 8192-byte buffer they answer in.     *)
(*                                                                         *)
(* The wrapped engine (Position, Threads, Search, UCI, Options, variants)  *)
(* is a collaborator: only what the bridge observes of it is modelled.     *)
(* A collaborator call may raise a fault; a fault is raised on entry to    *)
(* the call, before the call has changed anything.                         *)
(***************************************************************************)
EXTENDS Integers, Sequences, FiniteSets, TLC

(***************************************************************************)
(* Bounds of the model.                                                    *)
(***************************************************************************)
\* Callers (host threads) of the concurrent specification.
NumCallers == 2
\* Move tokens after "moves" in a position command.
MaxMoveTokens == 2
\* Length of a command line, or of an exception message, that cannot fit
\* in the output buffer.
LongLen == 9000

\* Mate scores are drawn up to this many plies from mate.
MaxMatePlies == 4

(***************************************************************************)
(* Program constants.                                                      *)
(***************************************************************************)
\* char output_buffer[8192];
OutputBufferSize == 8192

Min(a, b) == IF a <= b THEN a ELSE b

(***************************************************************************)
(* Text.  A C string is modelled by what it is made of and how long it     *)
(* is: body is the sequence of pieces it was streamed from and len the     *)
(* number of characters it holds, so that [body |-> b, len |-> n] with n   *)
(* smaller than the pieces' total length is the first n characters of      *)
(* their concatenation.                                                    *)
(***************************************************************************)
Lit(s) == [body |-> <<s>>, len |-> Len(s)]

Empty == [body |-> <<>>, len |-> 0]

Cat(a, b) == [body |-> a.body \o b.body, len |-> a.len + b.len]

\* The first n characters of text a (all of it when it is shorter).
Prefix(a, n) == [body |-> a.body, len |-> Min(a.len, n)]

\* A text of n characters whose content is named by id (a long command
\* line, an exception message).
Opaque(id, n) == [body |-> <<id>>, len |-> n]

RECURSIVE JoinLen(_)
\* strlen of the tokens joined by single spaces.
JoinLen(toks) ==
    IF toks = <<>> THEN 0
    ELSE IF Len(toks) = 1 THEN Len(toks[1])
    ELSE Len(toks[1]) + 1 + JoinLen(Tail(toks))

\* The tokens joined by single spaces, as a text.
Join(toks) == [body |-> toks, len |-> JoinLen(toks)]


(***************************************************************************)
(* Arguments.  A command line is the sequence of its whitespace-separated  *)
(* tokens (what operator>> reads from it) and its strlen; nullptr is a     *)
(* value of its own.                                                       *)
(***************************************************************************)
nullptr == [null |-> TRUE, toks |-> <<>>, len |-> 0]

Line(toks) == [null |-> FALSE, toks |-> toks, len |-> JoinLen(toks)]

\* A line of n characters holding one token, named by id.
LongLine(id, n) == [null |-> FALSE, toks |-> <<id>>, len |-> n]

\* A line of n whitespace characters.
Spaces(n) == [null |-> FALSE, toks |-> <<>>, len |-> n]

\* The command line as text (std::string command_str(cmd)).
command_str(cmd) == [body |-> cmd.toks, len |-> cmd.len]

\* std::istringstream: the tokens left after the first n were read.
Drop(toks, n) == IF n >= Len(toks) THEN <<>> ELSE SubSeq(toks, n + 1, Len(toks))

\* is >> token: the token read, or the empty string when none is left.
First(toks) == IF toks = <<>> THEN "" ELSE toks[1]

(***************************************************************************)
(* Faults of the collaborator.  at names the collaborator call that        *)
(* raises, kind says whether what is thrown derives from std::exception,   *)
(* what is e.what().                                                       *)
(***************************************************************************)
NoFault == [at |-> "none", kind |-> "none", what |-> Empty]

Fault(site, kind, what) == [at |-> site, kind |-> kind, what |-> what]

FaultKinds == {"std", "other"}

\* The stages of stockfish_init, in the order the code runs them.
InitStages ==
    << "pieceMap.init", "variants.init", "UCI::init", "Options=",
       "Bitboards::init", "Position::init", "PSQT::init" >>

(***************************************************************************)
(* The state of the program.                                               *)
(***************************************************************************)
VARIABLES
    g_engine_mutex,                 \* the set of callers holding the mutex
    g_initialized,
    g_threads_initialized_command,
    g_threads_initialized_analyze,
    old_cout_streambuf,             \* "nullptr" or a saved stream buffer
    cout_rdbuf,                     \* what std::cout writes to
    g_pos,                          \* the position
    g_states,                       \* length of the chain g_states owns; 0: null
    output_buffer,                  \* [str: the C string in it, hi: last index written]
    Options,                        \* the option registry, name -> value
    variants,                       \* names in the variant registry
    Threads,                        \* the thread pool, with rootMoves[0] of its main thread
    tt,                             \* search state: "clear" or "dirty"
    tables,                         \* static tables that have been initialised
    crashed,                        \* the process has died
    pc,                             \* per caller: where it is in its call
    op,                             \* per caller: the operation it called
    arg,                            \* per caller: the argument it passed
    path,                           \* per caller: the path its call took
    old_buf_,                       \* per caller: ScopedCoutRedirect::old_buf_
    ret,                            \* per caller: the string its call returned
    seen                            \* per caller: what it read through the pointer

session_vars ==
    << g_initialized, g_threads_initialized_command, g_threads_initialized_analyze,
       old_cout_streambuf, cout_rdbuf, g_pos, g_states, output_buffer, Options,
       variants, Threads, tt, tables >>

caller_vars == << pc, op, arg, path, old_buf_, ret, seen >>

vars == << g_engine_mutex, session_vars, crashed, caller_vars >>

\* The session as one value: what a function body reads and writes.
Cur ==
    [ g_initialized |-> g_initialized,
      g_threads_initialized_command |-> g_threads_initialized_command,
      g_threads_initialized_analyze |-> g_threads_initialized_analyze,
      old_cout_streambuf |-> old_cout_streambuf,
      cout_rdbuf |-> cout_rdbuf,
      g_pos |-> g_pos,
      g_states |-> g_states,
      output_buffer |-> output_buffer,
      Options |-> Options,
      variants |-> variants,
      Threads |-> Threads,
      tt |-> tt,
      tables |-> tables ]

Install(s) ==
    /\ g_initialized' = s.g_initialized
    /\ g_threads_initialized_command' = s.g_threads_initialized_command
    /\ g_threads_initialized_analyze' = s.g_threads_initialized_analyze
    /\ old_cout_streambuf' = s.old_cout_streambuf
    /\ cout_rdbuf' = s.cout_rdbuf
    /\ g_pos' = s.g_pos
    /\ g_states' = s.g_states
    /\ output_buffer' = s.output_buffer
    /\ Options' = s.Options
    /\ variants' = s.variants
    /\ Threads' = s.Threads
    /\ tt' = s.tt
    /\ tables' = s.tables

(***************************************************************************)
(* The collaborator, as far as the bridge observes it.                     *)
(***************************************************************************)
\* The variants the registry holds once variants.init() has run.
RegisteredVariants == {"janggi", "chess"}

\* Variant::startFen, as the fields Position::set reads from it.
startFen(v) == IF v = "janggi" THEN <<"janggi-start", "w">> ELSE <<v \o "-start", "w">>

\* Position g_pos as default-constructed.
NoPosition == [variant |-> "", fen |-> <<>>, sfen |-> FALSE, moves |-> <<>>]

\* Position::set(variant, fen, chess960, st, thread, sfen): fen is read as
\* whitespace-separated fields.
Position_set(s, v, fen, sfen) ==
    [s EXCEPT !.g_pos = [variant |-> v, fen |-> fen, sfen |-> sfen, moves |-> <<>>]]

\* The side to move: the fen's second field, flipped by every move made.
side_to_move(pos) ==
    LET first == IF Len(pos.fen) >= 2 /\ pos.fen[2] = "b" THEN 1 ELSE 0
    IN  (first + Len(pos.moves)) % 2

\* The moves each side has in the positions of the model.
MovesOf(side) ==
    IF side = 0 THEN {[from |-> "b0", to |-> "c2"]} ELSE {[from |-> "b9", to |-> "c7"]}

MOVE_NONE == [from |-> "", to |-> ""]

\* UCI::move(pos, m): the move in coordinate notation.
UCI_move(pos, m) == IF m = MOVE_NONE THEN "(none)" ELSE m.from \o m.to

\* A board on which the side to move has no legal move.
NoMovesBoard == "boardMated"

\* MoveList<LEGAL>(pos): the Janggi moves of the side to move whose piece
\* has not moved yet; none on NoMovesBoard.
LegalMoves(pos) ==
    IF pos.variant # "janggi" \/ (pos.fen # <<>> /\ pos.fen[1] = NoMovesBoard) THEN {}
    ELSE {m \in MovesOf(side_to_move(pos)) : \A i \in 1..Len(pos.moves) : pos.moves[i] # m}

\* UCI::to_move(pos, token): the legal move whose notation is the token,
\* or MOVE_NONE.
to_move(pos, token) ==
    LET hits == {m \in LegalMoves(pos) : UCI_move(pos, m) = token}
    IN  IF hits = {} THEN MOVE_NONE ELSE CHOOSE m \in hits : TRUE

\* Position::do_move(m, st)
do_move(pos, m) == [pos EXCEPT !.moves = Append(@, m)]

\* rootMoves of the main thread: none (rootMoves.empty()).
NoRootMove == [pv |-> <<>>, score |-> 0]

\* ThreadPool::set(n): the threads are destroyed and n new ones created.
Threads_set(s, n) == [s EXCEPT !.Threads.n = n, !.Threads.rootMoves = NoRootMove]

\* Search::clear()
Search_clear(s) == [s EXCEPT !.tt = "clear"]

\* ThreadPool::start_thinking(pos, states, limits, false): clears the stop
\* flag and takes the chain over from the caller's pointer, which is left
\* null; a null pointer keeps the chain taken before.
start_thinking(s, limits) ==
    [s EXCEPT !.Threads.stop = FALSE,
              !.Threads.limits = limits,
              !.Threads.setupStates = IF s.g_states # 0 THEN s.g_states ELSE @,
              !.Threads.rootMoves = NoRootMove,
              !.g_states = 0,
              !.tt = "dirty"]

\* Option::operator=(value)
Option_assign(s, name, value) == [s EXCEPT !.Options[name] = value]

\* UCI::init(Options): the registry with its defaults.
UCI_init(s) ==
    [s EXCEPT !.Options = [UCI_Variant |-> "chess", Threads |-> "1", Hash |-> "16"]]

\* Options[name] read as a string; an option the registry lacks reads empty.
OptionValue(s, name) == IF name \in DOMAIN s.Options THEN s.Options[name] ELSE ""


(***************************************************************************)
(* Writing the output buffer.                                              *)
(***************************************************************************)
\* std::strncpy(output_buffer, text, sizeof(output_buffer) - 1);
\* output_buffer[sizeof(output_buffer) - 1] = '\0';
strncpy_terminated(s, text) ==
    [s EXCEPT !.output_buffer =
        [str |-> Prefix(text, OutputBufferSize - 1), hi |-> OutputBufferSize - 1]]

\* std::snprintf(output_buffer, sizeof(output_buffer), ...) printing text
snprintf_buffer(s, text) ==
    [s EXCEPT !.output_buffer =
        [str |-> Prefix(text, OutputBufferSize - 1),
         hi  |-> Min(text.len, OutputBufferSize - 1)]]

\* The length, were the terminator's byte not reserved.
copy_len_unreserved(output) == Min(output.len, OutputBufferSize)

\* size_t len = std::min(output.length(), sizeof(output_buffer) - 1);
copy_len(output) == Min(output.len, OutputBufferSize - 1)

\* std::memcpy(output_buffer, output.c_str(), len); output_buffer[len] = '\0';
memcpy_terminated(s, output) ==
    [s EXCEPT !.output_buffer =
        [str |-> Prefix(output, copy_len(output)), hi |-> copy_len(output)]]

(***************************************************************************)
(* Control.  A step of a function body yields the session it leaves and    *)
(* how it ended: "ok", or the kind of the fault raised ("std", "other"),   *)
(* or "crash" when undefined behaviour ended the process.                  *)
(***************************************************************************)
Ok(s) == [s |-> s, ctl |-> "ok", what |-> Empty]

Raise(s, f) == [s |-> s, ctl |-> f.kind, what |-> f.what]

Crash(s) == [s |-> s, ctl |-> "crash", what |-> Empty]

\* What a call leaves: the session, where the caller goes next ("return",
\* "search", "throw", "crash") and the path taken (whether the lazy
\* provisioning ran, and the exit taken).
Outcome(s, next, lazy, exit) ==
    [s |-> s, next |-> next, path |-> [lazy |-> lazy, exit |-> exit]]

\* A fresh chain: StateListPtr(new std::deque<StateInfo>(1))
fresh_chain(s) == [s EXCEPT !.g_states = 1]

(***************************************************************************)
(* stockfish_init                                                          *)
(***************************************************************************)
\* Stage k of the initialisation.
init_stage(s, k) ==
    LET stage == InitStages[k]
    IN  CASE stage = "pieceMap.init" -> [s EXCEPT !.tables = @ \cup {"pieceMap"}]
          [] stage = "variants.init" -> [s EXCEPT !.variants = RegisteredVariants]
          [] stage = "UCI::init" -> UCI_init(s)
          [] stage = "Options=" ->
                Option_assign(
                    Option_assign(Option_assign(s, "UCI_Variant", "janggi"), "Threads", "1"),
                    "Hash", "16")
          [] stage = "Bitboards::init" -> [s EXCEPT !.tables = @ \cup {"Bitboards"}]
          [] stage = "Position::init" -> [s EXCEPT !.tables = @ \cup {"Position"}]
          [] stage = "PSQT::init" ->
                IF OptionValue(s, "UCI_Variant") \in s.variants
                THEN [s EXCEPT !.tables = @ \cup {"PSQT"}]
                ELSE s

RECURSIVE init_stages_continuing(_, _, _)
\* The stages, were a stage that raises passed over and the rest run.
init_stages_continuing(s, k, f) ==
    IF k > Len(InitStages) THEN Ok(s)
    ELSE IF f.at = InitStages[k] THEN init_stages_continuing(s, k + 1, f)
    ELSE init_stages_continuing(init_stage(s, k), k + 1, f)

RECURSIVE init_stages(_, _, _)
\* Stages k.. in order, up to the one that raises.
init_stages(s, k, f) ==
    IF k > Len(InitStages) THEN Ok(s)
    ELSE IF f.at = InitStages[k] THEN Raise(s, f)
    ELSE init_stages(init_stage(s, k), k + 1, f)

\* The guard, were the flag not consulted.
already_initialized_unchecked(s) == FALSE

\* if (g_initialized) return;
already_initialized(s) == s.g_initialized

stockfish_init(s, f) ==
    IF already_initialized(s)
    THEN Outcome(s, "return", "none", "already_initialized")
    ELSE LET r == init_stages(s, 1, f)
         IN  IF r.ctl = "ok"
             THEN Outcome([fresh_chain(r.s) EXCEPT
                              !.g_threads_initialized_command = FALSE,
                              !.g_threads_initialized_analyze = FALSE,
                              !.g_initialized = TRUE],
                          "return", "none", "initialized")
             ELSE Outcome([r.s EXCEPT !.g_initialized = FALSE],
                          "return", "none", "init_failed")

(***************************************************************************)
(* Lazy provisioning of the thread pool and the starting position.  u is   *)
(* what dereferencing a null g_states does in this run: "crash" ends the   *)
(* process, "wild" goes on with the position attached to a wild pointer.   *)
(***************************************************************************)
UBOutcomes == {"crash", "wild"}

\* Threads.set(1); Search::clear(); g_pos.set(v, v->startFen, false,
\* &g_states->back(), Threads.main());
provision(s, f, u) ==
    IF f.at = "Threads.set" THEN Raise(s, f)
    ELSE LET s1 == Threads_set(s, 1)
         IN  IF f.at = "Search::clear" THEN Raise(s1, f)
             ELSE LET s2 == Search_clear(s1)
                  IN  IF "janggi" \notin s2.variants THEN Ok(s2)
                      ELSE IF s2.g_states = 0
                      THEN IF u = "crash" THEN Crash(s2)
                           ELSE Ok(Position_set(s2, "janggi", startFen("janggi"), FALSE))
                      ELSE IF f.at = "Position::set" THEN Raise(s2, f)
                      ELSE Ok(Position_set(s2, "janggi", startFen("janggi"), FALSE))

\* The try block of stockfish_command's lazy initialisation.
provision_command(s, f, u) ==
    LET r == provision(s, f, u)
    IN  IF r.ctl = "ok"
        THEN Ok([r.s EXCEPT !.g_threads_initialized_command = TRUE])
        ELSE r

\* The try block of stockfish_analyze's lazy initialisation.
provision_analyze(s, f, u) ==
    LET r == provision(s, f, u)
    IN  IF r.ctl = "ok"
        THEN Ok([r.s EXCEPT !.g_threads_initialized_analyze = TRUE])
        ELSE r

\* What the handlers of a lazy initialisation catch: std::exception only.
lazy_catches(kind) == kind = "std"

NotInitializedText == Lit("error: Engine not initialized")

ThreadInitFailedText(what) == Cat(Lit("error: Thread init failed - "), what)

ExceptionText(what) == Cat(Lit("error: Exception - "), what)

UnknownExceptionText == Lit("error: Unknown exception")

(***************************************************************************)
(* The handlers of stockfish_command.                                      *)
(***************************************************************************)
RECURSIVE TakeUntil(_, _)
\* while (is >> token && token != stop): the tokens read before stop.
TakeUntil(toks, stop) ==
    IF toks = <<>> \/ toks[1] = stop THEN <<>>
    ELSE <<toks[1]>> \o TakeUntil(Tail(toks), stop)

\* The tokens left in the stream after that loop (stop itself was read).
AfterStop(toks, stop) == Drop(toks, Len(TakeUntil(toks, stop)) + 1)

RECURSIVE apply_moves_skipping(_, _, _)
\* The loop, were a token that does not resolve skipped (continue) rather
\* than the end of the loop (break).
apply_moves_skipping(st, toks, f) ==
    IF toks = <<>> THEN st
    ELSE LET m == to_move(st.pos, toks[1])
         IN  IF m = MOVE_NONE THEN apply_moves_skipping(st, Tail(toks), f)
             ELSE IF f.at = "Position::do_move"
             THEN [st EXCEPT !.states = @ + 1, !.raised = TRUE]
             ELSE apply_moves_skipping([st EXCEPT !.states = @ + 1, !.pos = do_move(@, m)],
                                       Tail(toks), f)

RECURSIVE apply_moves(_, _, _)
\* The move loop of handle_position: each token is resolved in the position
\* reached so far and made, up to the first one that does not resolve.
\* Yields the position, the chain's length and whether do_move raised.
apply_moves(st, toks, f) ==
    IF toks = <<>> THEN st
    ELSE LET m == to_move(st.pos, toks[1])
         IN  IF m = MOVE_NONE THEN st
             ELSE IF f.at = "Position::do_move"
             THEN [st EXCEPT !.states = @ + 1, !.raised = TRUE]
             ELSE apply_moves([st EXCEPT !.states = @ + 1, !.pos = do_move(@, m)],
                              Tail(toks), f)

\* handle_position from states = StateListPtr(...) on.
set_and_play(s, v, fen, sfen, moves, f) ==
    LET s1 == fresh_chain(s)
    IN  IF f.at = "Position::set" THEN Raise(s1, f)
        ELSE LET s2 == Position_set(s1, v, fen, sfen)
                 st == apply_moves([pos |-> s2.g_pos, states |-> s2.g_states,
                                    raised |-> FALSE], moves, f)
                 s3 == [s2 EXCEPT !.g_pos = st.pos, !.g_states = st.states]
             IN  IF st.raised THEN Raise(s3, f) ELSE Ok(s3)

\* variants.find(Options["UCI_Variant"]) != variants.end()
variant_found(s) == OptionValue(s, "UCI_Variant") \in s.variants

handle_position(s, toks, f) ==
    LET token == First(toks)
        sfen == token = "sfen"
        variant_name == OptionValue(s, "UCI_Variant")
    IN  IF token = "startpos"
        THEN IF ~variant_found(s) THEN Ok(s)
             ELSE set_and_play(s, variant_name, startFen(variant_name), sfen,
                               Drop(toks, 2), f)
        ELSE IF token = "fen" \/ token = "sfen"
        THEN LET fen == TakeUntil(Tail(toks), "moves")
                 moves == AfterStop(Tail(toks), "moves")
             IN  IF ~variant_found(s) THEN Ok(s)
                 ELSE set_and_play(s, variant_name, fen, sfen, moves, f)
        ELSE Ok(s)

\* Search::LimitsType as constructed.
NoLimits ==
    [ searchmoves |-> <<>>, wtime |-> "0", btime |-> "0", winc |-> "0", binc |-> "0",
      movestogo |-> "0", depth |-> "0", nodes |-> "0", movetime |-> "0",
      infinite |-> "0" ]

LimitWords == {"wtime", "btime", "winc", "binc", "movestogo", "depth", "nodes", "movetime"}

RECURSIVE parse_limits(_, _, _)
\* The token loop of handle_go.
parse_limits(pos, toks, limits) ==
    IF toks = <<>> THEN limits
    ELSE LET token == toks[1]
             rest == Tail(toks)
         IN  IF token = "searchmoves"
             THEN [limits EXCEPT !.searchmoves =
                      @ \o [i \in 1..Len(rest) |-> to_move(pos, rest[i])]]
             ELSE IF token \in LimitWords
             THEN IF rest = <<>> THEN limits
                  ELSE parse_limits(pos, Tail(rest), [limits EXCEPT ![token] = rest[1]])
             ELSE IF token = "infinite"
             THEN parse_limits(pos, rest, [limits EXCEPT !.infinite = "1"])
             ELSE parse_limits(pos, rest, limits)

\* handle_go, were the search started on the Janggi starting position
\* rather than on the position the session holds.
handle_go_startpos(s, toks, f) ==
    LET s0 == Position_set(s, "janggi", startFen("janggi"), FALSE)
        limits == parse_limits(s0.g_pos, toks, NoLimits)
    IN  IF f.at = "start_thinking" THEN Raise(s0, f)
        ELSE Ok(start_thinking(s0, limits))

handle_go(s, toks, f) ==
    LET limits == parse_limits(s.g_pos, toks, NoLimits)
    IN  IF f.at = "start_thinking" THEN Raise(s, f)
        ELSE Ok(start_thinking(s, limits))

RECURSIVE JoinStr(_)
\* name += (name.empty() ? "" : " ") + token, over the tokens
JoinStr(toks) ==
    IF toks = <<>> THEN ""
    ELSE IF Len(toks) = 1 THEN toks[1]
    ELSE toks[1] \o " " \o JoinStr(Tail(toks))

handle_setoption(s, toks, f) ==
    LET after == Drop(toks, 1)
        name == JoinStr(TakeUntil(after, "value"))
        value == JoinStr(AfterStop(after, "value"))
    IN  IF name \in DOMAIN s.Options
        THEN IF f.at = "Options=" THEN Raise(s, f) ELSE Ok(Option_assign(s, name, value))
        ELSE Ok(s)

\* The "ucinewgame" branch, were the variant taken from the UCI_Variant
\* option as the position command takes it.
handle_ucinewgame_configured(s, f) ==
    IF f.at = "Search::clear" THEN Raise(s, f)
    ELSE LET s1 == fresh_chain(Search_clear(s))
             v == OptionValue(s1, "UCI_Variant")
         IN  IF v \notin s1.variants THEN Ok(s1)
             ELSE IF f.at = "Position::set" THEN Raise(s1, f)
             ELSE Ok(Position_set(s1, v, startFen(v), FALSE))

\* The "ucinewgame" branch up to its output.
handle_ucinewgame(s, f) ==
    IF f.at = "Search::clear" THEN Raise(s, f)
    ELSE LET s1 == fresh_chain(Search_clear(s))
         IN  IF "janggi" \notin s1.variants THEN Ok(s1)
             ELSE IF f.at = "Position::set" THEN Raise(s1, f)
             ELSE Ok(Position_set(s1, "janggi", startFen("janggi"), FALSE))

OkText == Lit("ok\n")

ReadyOkText == Lit("readyok\n")

\* The uci response, were uciok written before the author line.
UciText_reordered ==
    Cat(Cat(Lit("id name Fairy-Stockfish (Janggi)\n"),
            Lit("uciok\n")),
        Lit("id author Fairy-Stockfish developers\n"))

UciText ==
    Cat(Cat(Lit("id name Fairy-Stockfish (Janggi)\n"),
            Lit("id author Fairy-Stockfish developers\n")),
        Lit("uciok\n"))

UnknownCommandText(cmd) == Cat(Cat(Lit("Unknown command: "), command_str(cmd)), Lit("\n"))

\* The catch handlers of stockfish_command and stockfish_analyze.
caught(r) ==
    IF r.ctl = "std"
    THEN snprintf_buffer(r.s, ExceptionText(r.what))
    ELSE strncpy_terminated(r.s, UnknownExceptionText)

\* std::string output = cout_buffer.str(); ... return output_buffer;
respond(r, output, lazy, exit) ==
    IF r.ctl = "ok"
    THEN Outcome(memcpy_terminated(r.s, output), "return", lazy, exit)
    ELSE Outcome(caught(r), "return", lazy, "exception")

\* The dispatch, were isready to start a new game as ucinewgame does.
dispatch_isready_resets(s, cmd, f, lazy) ==
    LET token == First(cmd.toks)
        rest == Drop(cmd.toks, 1)
    IN  CASE token = "position" -> respond(handle_position(s, rest, f), OkText, lazy, "position")
          [] token = "go" ->
                LET r == handle_go(s, rest, f)
                IN  IF r.ctl = "ok" THEN Outcome(r.s, "search", lazy, "go")
                    ELSE Outcome(caught(r), "return", lazy, "exception")
          [] token = "setoption" ->
                respond(handle_setoption(s, rest, f), OkText, lazy, "setoption")
          [] token = "isready" ->
                respond(handle_ucinewgame(s, f), ReadyOkText, lazy, "isready")
          [] token = "uci" -> respond(Ok(s), UciText, lazy, "uci")
          [] token = "ucinewgame" -> respond(handle_ucinewgame(s, f), OkText, lazy, "ucinewgame")
          [] token = "quit" ->
                respond(Ok([s EXCEPT !.Threads.stop = TRUE]), OkText, lazy, "quit")
          [] token = "" -> respond(Ok(s), Empty, lazy, "empty")
          [] OTHER -> respond(Ok(s), UnknownCommandText(cmd), lazy, "unknown")

\* The try block of stockfish_command, up to the wait for the search.
dispatch(s, cmd, f, lazy) ==
    LET token == First(cmd.toks)
        rest == Drop(cmd.toks, 1)
    IN  CASE token = "position" -> respond(handle_position(s, rest, f), OkText, lazy, "position")
          [] token = "go" ->
                LET r == handle_go(s, rest, f)
                IN  IF r.ctl = "ok" THEN Outcome(r.s, "search", lazy, "go")
                    ELSE Outcome(caught(r), "return", lazy, "exception")
          [] token = "setoption" ->
                respond(handle_setoption(s, rest, f), OkText, lazy, "setoption")
          [] token = "isready" -> respond(Ok(s), ReadyOkText, lazy, "isready")
          [] token = "uci" -> respond(Ok(s), UciText, lazy, "uci")
          [] token = "ucinewgame" -> respond(handle_ucinewgame(s, f), OkText, lazy, "ucinewgame")
          [] token = "quit" ->
                respond(Ok([s EXCEPT !.Threads.stop = TRUE]), OkText, lazy, "quit")
          [] token = "" -> respond(Ok(s), Empty, lazy, "empty")
          [] OTHER -> respond(Ok(s), UnknownCommandText(cmd), lazy, "unknown")

\* The guard, were the flag not consulted.
not_initialized_unchecked(s) == FALSE

\* if (!g_initialized) { ... return output_buffer; }
not_initialized(s) == ~s.g_initialized

\* if (cmd == nullptr) { ... return output_buffer; }
null_command(cmd) == cmd.null

stockfish_command(s, cmd, f, u) ==
    IF not_initialized(s)
    THEN Outcome(strncpy_terminated(s, NotInitializedText), "return", "none",
                 "not_initialized")
    ELSE LET skip == s.g_threads_initialized_command
             r == IF skip THEN Ok(s) ELSE provision_command(s, f, u)
             lazy == IF skip THEN "skipped" ELSE IF r.ctl = "ok" THEN "done" ELSE "failed"
         IN  CASE r.ctl = "crash" -> Outcome(r.s, "crash", lazy, "crash")
               [] r.ctl = "ok" ->
                    IF null_command(cmd)
                    THEN Outcome(strncpy_terminated(r.s, Lit("error: Null command")),
                                 "return", lazy, "null")
                    ELSE dispatch(r.s, cmd, f, lazy)
               [] lazy_catches(r.ctl) ->
                    Outcome(snprintf_buffer(r.s, ThreadInitFailedText(r.what)),
                            "return", lazy, "thread_init_failed")
               [] OTHER -> Outcome(r.s, "throw", lazy, "escaped")

\* The "go" output, were the second move of the variation left out.
go_output_without_ponder(s, r) ==
    IF s.Threads.n > 0 /\ r.pv # <<>>
    THEN LET bestMove == r.pv[1]
         IN  IF bestMove # MOVE_NONE
             THEN Cat(Cat(Lit("bestmove "), Lit(UCI_move(s.g_pos, bestMove))), Lit("\n"))
             ELSE Empty
    ELSE Empty

\* The "go" branch after Threads.main()->wait_for_search_finished(): r is
\* what the search left in rootMoves[0] (pv empty: no root move).
go_output(s, r) ==
    IF s.Threads.n > 0 /\ r.pv # <<>>
    THEN LET bestMove == r.pv[1]
         IN  IF bestMove # MOVE_NONE
             THEN Cat(Cat(Cat(Lit("bestmove "), Lit(UCI_move(s.g_pos, bestMove))),
                          IF Len(r.pv) > 1
                          THEN Cat(Lit(" ponder "), Lit(UCI_move(s.g_pos, r.pv[2])))
                          ELSE Empty),
                      Lit("\n"))
             ELSE Empty
    ELSE Empty

go_finish(s, r, f, lazy) ==
    IF f.at = "search"
    THEN Outcome(caught(Raise(s, f)), "return", lazy, "exception")
    ELSE respond(Ok(s), go_output(s, r), lazy, "bestmove")

(***************************************************************************)
(* stockfish_analyze                                                       *)
(***************************************************************************)
\* Engine values (types.h).
VALUE_MATE == 32000

MAX_PLY == 246

VALUE_MATE_IN_MAX_PLY == VALUE_MATE - MAX_PLY

VALUE_MATED_IN_MAX_PLY == -VALUE_MATE_IN_MAX_PLY

\* Integer division of C++: the quotient is truncated towards zero.
IntDiv(a, b) == IF a >= 0 THEN a \div b ELSE -((-a) \div b)

\* The score part, were the mate distance halved without rounding up.
score_text_unrounded(score) ==
    IF score >= VALUE_MATE_IN_MAX_PLY
    THEN Cat(Lit("mate "), Lit(ToString(IntDiv(VALUE_MATE - score, 2))))
    ELSE IF score <= VALUE_MATED_IN_MAX_PLY
    THEN Cat(Lit("mate "), Lit(ToString(IntDiv(-VALUE_MATE - score, 2))))
    ELSE Cat(Lit("cp "), Lit(ToString(score)))

\* The score part of the result.
score_text(score) ==
    IF score >= VALUE_MATE_IN_MAX_PLY
    THEN Cat(Lit("mate "), Lit(ToString(IntDiv(VALUE_MATE - score + 1, 2))))
    ELSE IF score <= VALUE_MATED_IN_MAX_PLY
    THEN Cat(Lit("mate "), Lit(ToString(IntDiv(-VALUE_MATE - score, 2))))
    ELSE Cat(Lit("cp "), Lit(ToString(score)))

\* The result built in ss.
analyze_output(s, r) ==
    LET bestMove == r.pv[1]
    IN  Cat(score_text(r.score),
            IF bestMove # MOVE_NONE
            THEN Cat(Lit(" bestmove "), Lit(UCI_move(s.g_pos, bestMove)))
            ELSE Empty)

\* ScopedCoutRedirect silence_stdout(&g_null_buffer);
redirect(s) == [s EXCEPT !.cout_rdbuf = "g_null_buffer"]

\* The destructor, were the saved buffer not put back.
restore_skipped(s, old) == s

\* ~ScopedCoutRedirect()
restore(s, old) == [s EXCEPT !.cout_rdbuf = old]

\* The variant, were it the one the options name.
analyze_variant_configured(s) == OptionValue(s, "UCI_Variant")

\* auto it = variants.find("janggi");
analyze_variant(s) == "janggi"

\* The test, were a null fen let through.
null_fen_unchecked(fen) == FALSE

\* if (fen == nullptr) { ... return output_buffer; }
null_fen(fen) == fen.null

\* stockfish_analyze up to the wait for the search.
stockfish_analyze(s, fen, depth, f, u) ==
    IF not_initialized(s)
    THEN Outcome(strncpy_terminated(s, NotInitializedText), "return", "none",
                 "not_initialized")
    ELSE LET skip == s.g_threads_initialized_analyze
             r == IF skip THEN Ok(s) ELSE provision_analyze(s, f, u)
             lazy == IF skip THEN "skipped" ELSE IF r.ctl = "ok" THEN "done" ELSE "failed"
         IN  CASE r.ctl = "crash" -> Outcome(r.s, "crash", lazy, "crash")
               [] r.ctl = "ok" ->
                    IF null_fen(fen)
                    THEN Outcome(strncpy_terminated(r.s, Lit("error: Null FEN")),
                                 "return", lazy, "null")
                    ELSE IF f.at = "Search::clear"
                    THEN Outcome(caught(Raise(r.s, f)), "return", lazy, "exception")
                    ELSE LET s1 == Search_clear(r.s)
                         IN  IF analyze_variant(s1) \notin s1.variants
                             THEN Outcome(strncpy_terminated(s1,
                                              Lit("error: Janggi variant not found")),
                                          "return", lazy, "variant_not_found")
                             ELSE LET s2 == fresh_chain(s1)
                                  IN  IF f.at = "Position::set"
                                      THEN Outcome(caught(Raise(s2, f)), "return", lazy,
                                                   "exception")
                                      ELSE LET s3 == Position_set(s2, analyze_variant(s2), fen.toks, FALSE)
                                               limits == [NoLimits EXCEPT !.depth = ToString(depth)]
                                           IN  IF f.at = "start_thinking"
                                               THEN Outcome(caught(Raise(
                                                        restore(redirect(s3), s3.cout_rdbuf), f)),
                                                        "return", lazy, "exception")
                                               ELSE Outcome(start_thinking(redirect(s3), limits),
                                                            "search", lazy, "analyze")
               [] lazy_catches(r.ctl) ->
                    Outcome(snprintf_buffer(r.s, ThreadInitFailedText(r.what)),
                            "return", lazy, "thread_init_failed")
               [] OTHER -> Outcome(r.s, "throw", lazy, "escaped")

\* stockfish_analyze after the wait: old is what the redirect saved.
analyze_finish(s, old, r, f, lazy) ==
    IF f.at = "search"
    THEN Outcome(caught(Raise(restore(s, old), f)), "return", lazy, "exception")
    ELSE IF s.Threads.n = 0 \/ r.pv = <<>>
    THEN Outcome(restore(strncpy_terminated(s, Lit("error: No root moves")), old),
                 "return", lazy, "no_root_moves")
    ELSE Outcome(restore(strncpy_terminated(s, analyze_output(s, r)), old),
                 "return", lazy, "result")

(***************************************************************************)
(* stockfish_cleanup                                                       *)
(***************************************************************************)
\* Those statements, were the readiness flags left as they are.
cleanup_reset_keeping_flags(s) ==
    LET s1 == IF s.old_cout_streambuf # "nullptr"
              THEN [s EXCEPT !.cout_rdbuf = s.old_cout_streambuf,
                             !.old_cout_streambuf = "nullptr"]
              ELSE s
    IN  [fresh_chain(s1) EXCEPT !.g_initialized = FALSE]

\* The statements of the try block after Threads.set(0).
cleanup_reset(s) ==
    LET s1 == IF s.old_cout_streambuf # "nullptr"
              THEN [s EXCEPT !.cout_rdbuf = s.old_cout_streambuf,
                             !.old_cout_streambuf = "nullptr"]
              ELSE s
    IN  [fresh_chain(s1) EXCEPT !.g_threads_initialized_command = FALSE,
                                !.g_threads_initialized_analyze = FALSE,
                                !.g_initialized = FALSE]

stockfish_cleanup(s, f) ==
    IF not_initialized(s) THEN Outcome(s, "return", "none", "not_initialized")
    ELSE IF f.at = "Search::clear" THEN Outcome(s, "return", "none", "swallowed")
    ELSE LET s1 == Search_clear(s)
         IN  IF f.at = "Threads.set" THEN Outcome(s1, "return", "none", "swallowed")
             ELSE Outcome(cleanup_reset(Threads_set(s1, 0)), "return", "none", "cleaned")

(***************************************************************************)
(* The search, as the bridge observes it: what it leaves in rootMoves[0].  *)
(***************************************************************************)
\* The root moves: the legal moves, restricted to limits.searchmoves when
\* that is not empty.
RootMoves(pos, limits) ==
    IF limits.searchmoves = <<>> THEN LegalMoves(pos)
    ELSE {m \in LegalMoves(pos) :
            \E i \in 1..Len(limits.searchmoves) : limits.searchmoves[i] = m}

\* The principal variations a search of pos may report: a root move
\* ("move"), a root move and a reply to it ("reply") or, defensively, as
\* the bridge tests for it, MOVE_NONE ("none"); shapes names the ones a
\* specification draws from.
PrincipalVariations(pos, limits, shapes) ==
    IF RootMoves(pos, limits) = {} THEN {<<>>}
    ELSE {<<m>> : m \in {x \in RootMoves(pos, limits) : "move" \in shapes}}
         \cup {<<m[1], m[2]>> : m \in {x \in RootMoves(pos, limits) \X MovesOf(0) \cup
                                           RootMoves(pos, limits) \X MovesOf(1) :
                                           /\ "reply" \in shapes
                                           /\ x[2] \in LegalMoves(do_move(pos, x[1]))}}
         \cup {<<MOVE_NONE>> : x \in {"none"} \cap shapes}

SearchResults(pos, limits, shapes, scores) ==
    {[pv |-> pv, score |-> sc] : pv \in PrincipalVariations(pos, limits, shapes), sc \in scores}

\* A search ends when its limits are reached; an infinite one only when
\* Threads.stop is set.
search_can_finish == Threads.limits.infinite = "0" \/ Threads.stop

(***************************************************************************)
(* The callers.  I names the inputs a specification draws from.            *)
(***************************************************************************)
Operations == {"stockfish_init", "stockfish_command", "stockfish_analyze", "stockfish_cleanup"}

ReturnsText(o) == o \in {"stockfish_command", "stockfish_analyze"}

NoArg == [text |-> nullptr, depth |-> 0]

NoPath == [lazy |-> "none", exit |-> "none"]

\* The arguments a call of operation o may be given.
ArgsOf(o, I) ==
    CASE o = "stockfish_command" -> {[text |-> c, depth |-> 0] : c \in I.cmds}
      [] o = "stockfish_analyze" -> {[text |-> x, depth |-> d] : x \in I.fens, d \in I.depths}
      [] OTHER -> {NoArg}

\* The collaborator calls the lazy provisioning makes.
LazySites == {"Threads.set", "Search::clear", "Position::set"}

\* The collaborator calls a call of operation o with argument a can make
\* before it waits for a search.
SitesOf(o, a) ==
    CASE o = "stockfish_init" -> {InitStages[k] : k \in 1..Len(InitStages)}
      [] o = "stockfish_command" ->
            LazySites \cup
            ( CASE First(a.text.toks) = "position" -> {"Position::set", "Position::do_move"}
                [] First(a.text.toks) = "go" -> {"start_thinking"}
                [] First(a.text.toks) = "setoption" -> {"Options="}
                [] First(a.text.toks) = "ucinewgame" -> {"Search::clear", "Position::set"}
                [] OTHER -> {} )
      [] o = "stockfish_analyze" ->
            {"Threads.set", "Search::clear", "Position::set", "start_thinking"}
      [] o = "stockfish_cleanup" -> {"Search::clear", "Threads.set"}

\* The faults a run may meet at the given sites.
FaultsAt(sites, I) ==
    {NoFault}
    \cup {Fault(x, "std", w) : x \in sites \cap I.sites, w \in I.whats}
    \cup {Fault(x, "other", Empty) : x \in sites \cap I.sites}

Run(o, s, a, f, u) ==
    CASE o = "stockfish_init" -> stockfish_init(s, f)
      [] o = "stockfish_command" -> stockfish_command(s, a.text, f, u)
      [] o = "stockfish_analyze" -> stockfish_analyze(s, a.text, a.depth, f, u)
      [] o = "stockfish_cleanup" -> stockfish_cleanup(s, f)

\* Entry without waiting for the mutex to be free.
lock_guard_unchecked(t) == g_engine_mutex' = g_engine_mutex \cup {t}

\* std::lock_guard<std::mutex> lock(g_engine_mutex): taken when free.
lock_guard(t) == g_engine_mutex = {} /\ g_engine_mutex' = {t}

\* The scope, were it left before the wait for the search.
leaves_scope_before_wait(next) == next \in {"return", "throw", "search"}

\* The lock_guard's scope is left by a return and by an exception alike.
leaves_scope(next) == next \in {"return", "throw"}

\* The outcomes to choose from: a choice is made only where the pointer
\* is null.
UBChoices == IF g_states = 0 THEN UBOutcomes ELSE {"crash"}

\* What a step of caller t's call leaves.
Apply(t, o) ==
    /\ Install(o.s)
    /\ path' = [path EXCEPT ![t] = o.path]
    /\ g_engine_mutex' = IF leaves_scope(o.next) THEN g_engine_mutex \ {t} ELSE g_engine_mutex
    /\ crashed' = (o.next = "crash")
    /\ pc' = [pc EXCEPT ![t] =
                CASE o.next = "return" -> "returned"
                  [] o.next = "throw" -> "escaped"
                  [] o.next = "search" -> "search"
                  [] OTHER -> "crashed"]
    /\ ret' = [ret EXCEPT ![t] =
                IF o.next = "return" /\ ReturnsText(op[t])
                THEN o.s.output_buffer.str ELSE Empty]

\* Caller t calls an operation and takes the lock.
Call(t, I) ==
    /\ ~crashed
    /\ pc[t] = "idle"
    /\ lock_guard(t)
    /\ \E o \in I.ops : op' = [op EXCEPT ![t] = o]
    /\ pc' = [pc EXCEPT ![t] = "body"]
    /\ UNCHANGED << session_vars, crashed, arg, path, old_buf_, ret, seen >>

\* The body of the operation, to its return or to its wait for the search.
Body(t, I) ==
    /\ ~crashed
    /\ pc[t] = "body"
    /\ \E a \in ArgsOf(op[t], I) :
       \E f \in FaultsAt(SitesOf(op[t], a), I), u \in UBChoices :
          LET o == Run(op[t], Cur, a, f, u)
          IN  /\ arg' = [arg EXCEPT ![t] = a]
              /\ old_buf_' = [old_buf_ EXCEPT ![t] =
                                 IF o.next = "search" /\ op[t] = "stockfish_analyze"
                                 THEN cout_rdbuf ELSE @]
              /\ Apply(t, o)
    /\ UNCHANGED << op, seen >>

\* The search ends and the operation formats its answer.
SearchDone(t, I) ==
    /\ ~crashed
    /\ pc[t] = "search"
    /\ search_can_finish
    /\ \E f \in FaultsAt({"search"}, I),
          r \in SearchResults(g_pos, Threads.limits, I.pvs,
                              IF op[t] = "stockfish_analyze" THEN I.scores ELSE {0}) :
          LET s == IF f = NoFault THEN [Cur EXCEPT !.Threads.rootMoves = r] ELSE Cur
          IN  Apply(t, IF op[t] = "stockfish_analyze"
                       THEN analyze_finish(s, old_buf_[t], s.Threads.rootMoves, f,
                                           path[t].lazy)
                       ELSE go_finish(s, s.Threads.rootMoves, f, path[t].lazy))
    /\ UNCHANGED << op, arg, old_buf_, seen >>

\* A read of the buffer that overlaps another caller's write of it may see
\* neither the old nor the new string.
TornText == Opaque("(torn)", 0)

WritingTo(t) == {u \in DOMAIN pc : u # t /\ pc[u] \in {"body", "search"} /\ ReturnsText(op[u])}

\* The caller reads the string through the pointer it was returned.
Read(t) ==
    /\ ~crashed
    /\ pc[t] = "returned"
    /\ ReturnsText(op[t])
    /\ \E x \in {output_buffer.str} \cup (IF WritingTo(t) # {} THEN {TornText} ELSE {}) :
          seen' = [seen EXCEPT ![t] = x]
    /\ pc' = [pc EXCEPT ![t] = "read"]
    /\ UNCHANGED << g_engine_mutex, session_vars, crashed, op, arg, path, old_buf_, ret >>

\* The caller is done with the call (or has caught what escaped from it).
Leave(t) ==
    /\ ~crashed
    /\ \/ pc[t] \in {"read", "escaped"}
       \/ pc[t] = "returned" /\ ~ReturnsText(op[t])
    /\ pc' = [pc EXCEPT ![t] = "idle"]
    /\ op' = [op EXCEPT ![t] = "none"]
    /\ arg' = [arg EXCEPT ![t] = NoArg]
    /\ path' = [path EXCEPT ![t] = NoPath]
    /\ old_buf_' = [old_buf_ EXCEPT ![t] = "nullptr"]
    /\ ret' = [ret EXCEPT ![t] = Empty]
    /\ seen' = [seen EXCEPT ![t] = Empty]
    /\ UNCHANGED << g_engine_mutex, session_vars, crashed >>

\* The state after the globals' construction, with n callers.
InitWith(n) ==
    /\ g_engine_mutex = {}
    /\ g_initialized = FALSE
    /\ g_threads_initialized_command = FALSE
    /\ g_threads_initialized_analyze = FALSE
    /\ old_cout_streambuf = "nullptr"
    /\ cout_rdbuf = "stdout"
    /\ g_pos = NoPosition
    /\ g_states = 1
    /\ output_buffer = [str |-> Empty, hi |-> 0]
    /\ Options = [x \in {} |-> ""]
    /\ variants = {}
    /\ Threads = [n |-> 0, stop |-> FALSE, setupStates |-> 0, limits |-> NoLimits,
                  rootMoves |-> NoRootMove]
    /\ tt = "clear"
    /\ tables = {}
    /\ crashed = FALSE
    /\ pc = [t \in 1..n |-> "idle"]
    /\ op = [t \in 1..n |-> "none"]
    /\ arg = [t \in 1..n |-> NoArg]
    /\ path = [t \in 1..n |-> NoPath]
    /\ old_buf_ = [t \in 1..n |-> "nullptr"]
    /\ ret = [t \in 1..n |-> Empty]
    /\ seen = [t \in 1..n |-> Empty]

Step(t, I) == Call(t, I) \/ Body(t, I) \/ SearchDone(t, I) \/ Read(t) \/ Leave(t)

(***************************************************************************)
(* Spec: one caller drives the session through its lifecycle, with faults  *)
(* of the collaborator at every call it makes.                             *)
(***************************************************************************)
FenA == Line(<<"boardA", "b">>)

FenMated == Line(<<NoMovesBoard, "b">>)

ShortWhat == Opaque("(what)", 9)

AllSites ==
    {InitStages[k] : k \in 1..Len(InitStages)}
    \cup {"Threads.set", "Search::clear", "Position::set", "Position::do_move",
          "start_thinking", "Options=", "search"}

LifecycleInputs ==
    [ ops |-> Operations,
      cmds |-> { nullptr, Line(<<"isready">>), Line(<<"uci">>), Line(<<>>), Spaces(2),
                 Line(<<"invalid_command">>), Line(<<"quit">>), Line(<<"ucinewgame">>),
                 Line(<<"position", "startpos", "moves", "b0c2">>),
                 Line(<<"go", "depth", "1">>),
                 Line(<<"setoption", "name", "UCI_Variant", "value", "chess">>) },
      fens |-> { nullptr, FenA, FenMated },
      depths |-> { 1 },
      sites |-> AllSites,
      whats |-> { ShortWhat },
      pvs |-> { "move", "reply", "none" },
      scores |-> { 15 } ]

Init == InitWith(1)

Next == \E t \in {1} : Step(t, LifecycleInputs)

Spec == Init /\ [][Next]_vars

(***************************************************************************)
(* SpecConc: several host threads call the bridge at once.                 *)
(***************************************************************************)
ConcurrentInputs ==
    [ ops |-> Operations,
      cmds |-> { Line(<<"uci">>), Line(<<"go", "depth", "1">>) },
      fens |-> { nullptr },
      depths |-> { 1 },
      sites |-> { },
      whats |-> { ShortWhat },
      pvs |-> { "move" },
      scores |-> { 15 } ]

InitConc == InitWith(NumCallers)

NextConc == \E t \in 1..NumCallers : Step(t, ConcurrentInputs)

SpecConc == InitConc /\ [][NextConc]_vars

(***************************************************************************)
(* SpecPosition: position commands with every list of at most              *)
(* MaxMoveTokens move tokens, under every value of UCI_Variant.            *)
(***************************************************************************)
MoveTokens == {"b0c2", "b9c7", "zz99"}

RECURSIVE TokenLists(_)
\* The lists of at most n move tokens.
TokenLists(n) ==
    IF n = 0 THEN {<<>>}
    ELSE TokenLists(n - 1)
         \cup {Append(l, x) : l \in {y \in TokenLists(n - 1) : Len(y) = n - 1}, x \in MoveTokens}

PositionHeads ==
    { <<"position", "startpos", "moves">>,
      <<"position", "fen">> \o FenA.toks \o <<"moves">>,
      <<"position", "sfen">> \o FenA.toks \o <<"moves">> }

PositionCommands == {Line(h \o l) : h \in PositionHeads, l \in TokenLists(MaxMoveTokens)}

PositionInputs ==
    [ ops |-> {"stockfish_init", "stockfish_command"},
      cmds |-> PositionCommands \cup
               { Line(<<"go", "depth", "1">>),
                 Line(<<"setoption", "name", "UCI_Variant", "value", "chess">>),
                 Line(<<"setoption", "name", "UCI_Variant", "value", "nosuch">>),
                 Line(<<"setoption", "name", "UCI_Variant", "value", "janggi">>) },
      fens |-> { FenA },
      depths |-> { 1 },
      sites |-> { },
      whats |-> { ShortWhat },
      pvs |-> { "move", "reply", "none" },
      scores |-> { 15 } ]

NextPosition == \E t \in {1} : Step(t, PositionInputs)

SpecPosition == Init /\ [][NextPosition]_vars

(***************************************************************************)
(* SpecBuffer: answers at and beyond the capacity of the output buffer.    *)
(***************************************************************************)
\* "Unknown command: " and the newline around the line
UnknownOverhead == Len("Unknown command: ") + Len("\n")

BufferInputs ==
    [ ops |-> Operations,
      cmds |-> { nullptr, Line(<<"uci">>), Line(<<"go", "depth", "1">>),
                 Line(<<"invalid_command">>),
                 LongLine("(line)", OutputBufferSize - UnknownOverhead - 2),
                 LongLine("(line)", OutputBufferSize - UnknownOverhead - 1),
                 LongLine("(line)", OutputBufferSize - UnknownOverhead),
                 LongLine("(line)", OutputBufferSize - UnknownOverhead + 1),
                 LongLine("(line)", LongLen) },
      fens |-> { nullptr, FenA },
      depths |-> { 1 },
      sites |-> { "Threads.set", "start_thinking", "search" },
      whats |-> { ShortWhat,
                  Opaque("(what)", OutputBufferSize - Len("error: Exception - ") - 1),
                  Opaque("(what)", OutputBufferSize - Len("error: Exception - ")),
                  Opaque("(what)", LongLen) },
      pvs |-> { "move", "reply", "none" },
      scores |-> { 15 } ]

NextBuffer == \E t \in {1} : Step(t, BufferInputs)

SpecBuffer == Init /\ [][NextBuffer]_vars

(***************************************************************************)
(* SpecSearch: several host threads start searches, bounded (analyses) and *)
(* infinite (go), ask to quit and tear the session down.                   *)
(***************************************************************************)
SearchInputs ==
    [ ops |-> Operations,
      cmds |-> { Line(<<"go", "infinite">>), Line(<<"quit">>) },
      fens |-> { FenA },
      depths |-> { 1 },
      sites |-> { },
      whats |-> { ShortWhat },
      pvs |-> { "move" },
      scores |-> { 15 } ]

NextSearch == \E t \in 1..NumCallers : Step(t, SearchInputs)

SpecSearch == InitConc /\ [][NextSearch]_vars

(***************************************************************************)
(* SpecScore: analyses whose searches return scores around the mate        *)
(* thresholds and at the mate values.                                      *)
(***************************************************************************)
ScoreSamples ==
    {VALUE_MATE - p : p \in 0..MaxMatePlies}
    \cup {-VALUE_MATE + p : p \in 0..MaxMatePlies}
    \cup {VALUE_MATE_IN_MAX_PLY, VALUE_MATE_IN_MAX_PLY - 1,
          VALUE_MATED_IN_MAX_PLY, VALUE_MATED_IN_MAX_PLY + 1}
    \cup {-15, 0, 15}

ScoreInputs ==
    [ ops |-> {"stockfish_init", "stockfish_analyze"},
      cmds |-> { },
      fens |-> { FenA, FenMated },
      depths |-> { 1 },
      sites |-> { },
      whats |-> { ShortWhat },
      pvs |-> { "move", "reply", "none" },
      scores |-> ScoreSamples ]

NextScore == \E t \in {1} : Step(t, ScoreInputs)

SpecScore == Init /\ [][NextScore]_vars

(***************************************************************************)
(* The claims.                                                             *)
(***************************************************************************)
\* Caller t runs the body of its operation in this step.
BodyStep(t) == pc[t] = "body" /\ pc'[t] # "body"

RECURSIVE TotalLen(_)
TotalLen(lines) == IF lines = <<>> THEN 0 ELSE Len(lines[1]) + TotalLen(Tail(lines))

\* The text made of the given pieces.
Literal(lines) == [body |-> lines, len |-> TotalLen(lines)]

\* C1: a stockfish_command or stockfish_analyze call made while the session
\* is not initialized returns "error: Engine not initialized" and leaves the
\* initialized flag, both readiness flags, the position, the chain and the
\* option registry as they were.
C1_NotInitializedIsInert ==
    [][\A t \in DOMAIN pc :
          (BodyStep(t) /\ ReturnsText(op[t]) /\ ~g_initialized)
          => /\ pc'[t] = "returned"
             /\ ret'[t] = Literal(<<"error: Engine not initialized">>)
             /\ UNCHANGED << g_initialized, g_threads_initialized_command,
                             g_threads_initialized_analyze, g_pos, g_states, Options >>]_vars

\* A call has returned the error on a session that was initialized before
\* and was torn down, or whose initialisation failed half way.
C1_Witness ==
    \E t \in DOMAIN pc :
        /\ pc[t] = "returned"
        /\ op[t] = "stockfish_analyze"
        /\ ~g_initialized
        /\ variants # {}
        /\ ret[t] = Literal(<<"error: Engine not initialized">>)

\* C2: stockfish_init on an initialized session changes nothing, and the
\* session becomes initialized only by a stockfish_init that has run every
\* stage: the tables, the registry, the options and the reset of the flags
\* and of the chain.
C2_InitIdempotent ==
    [][/\ \A t \in DOMAIN pc :
             (BodyStep(t) /\ op[t] = "stockfish_init" /\ g_initialized)
             => (pc'[t] = "returned" /\ UNCHANGED session_vars)
       /\ (~g_initialized /\ g_initialized')
          => /\ \E t \in DOMAIN pc : BodyStep(t) /\ op[t] = "stockfish_init"
             /\ tables' = {"pieceMap", "Bitboards", "Position", "PSQT"}
             /\ variants' = RegisteredVariants
             /\ Options' = [UCI_Variant |-> "janggi", Threads |-> "1", Hash |-> "16"]
             /\ ~g_threads_initialized_command'
             /\ ~g_threads_initialized_analyze'
             /\ g_states' = 1]_vars

\* A second stockfish_init has returned on a session that commands had
\* provisioned and reconfigured.
C2_Witness ==
    \E t \in DOMAIN pc :
        /\ pc[t] = "returned"
        /\ op[t] = "stockfish_init"
        /\ g_initialized
        /\ g_threads_initialized_command
        /\ Options["UCI_Variant"] = "chess"
        /\ g_states = 2

\* C3: when stockfish_cleanup has returned, on every path through it, the
\* session is uninitialized, both readiness flags are false and the chain
\* is a fresh one of one snapshot.
C3_CleanupAlwaysResets ==
    \A t \in DOMAIN pc :
        (pc[t] = "returned" /\ op[t] = "stockfish_cleanup")
        => /\ ~g_initialized
           /\ ~g_threads_initialized_command
           /\ ~g_threads_initialized_analyze
           /\ g_states = 1

\* C4: what a caller reads through the pointer it was returned is the
\* output of its own call.
C4_OwnResponse ==
    \A t \in DOMAIN pc : pc[t] = "read" => seen[t] = ret[t]

\* The callers inside the body of an operation.
InBody == {t \in DOMAIN pc : pc[t] \in {"body", "search", "crashed"}}

\* C5: at most one caller is inside the body of an operation, the callers
\* inside are the holders of the mutex, and a caller that has left by any
\* exit does not hold it.
C5_MutualExclusion ==
    /\ Cardinality(InBody) <= 1
    /\ g_engine_mutex = InBody

\* A caller waits for its search while another has left through the
\* not-initialized return.
C5_Witness ==
    \E t, u \in DOMAIN pc :
        /\ pc[t] = "search"
        /\ g_engine_mutex = {t}
        /\ pc[u] = "returned"
        /\ path[u].exit = "not_initialized"

\* C6: no fault of the collaborator leaves a public operation.
C6_NoFaultEscapes ==
    \A t \in DOMAIN pc : pc[t] # "escaped"

\* The readiness flag of the entry point caller t called.
ReadyFlag(t) ==
    IF op[t] = "stockfish_command"
    THEN g_threads_initialized_command ELSE g_threads_initialized_analyze

\* C7: a call whose lazy provisioning failed returns an error string that
\* starts "error: Thread init failed" and leaves the entry point's
\* readiness flag false.
C7_FailedProvisioningIsReported ==
    \A t \in DOMAIN pc :
        (ReturnsText(op[t]) /\ path[t].lazy = "failed" /\ pc[t] \in {"returned", "escaped"})
        => /\ pc[t] = "returned"
           /\ ret[t].body[1] = "error: Thread init failed - "
           /\ ~ReadyFlag(t)

\* A position command with a moves list.
IsPositionCommand(cmd) ==
    /\ ~cmd.null
    /\ Len(cmd.toks) >= 3
    /\ cmd.toks[1] = "position"
    /\ cmd.toks[2] \in {"startpos", "fen", "sfen"}
    /\ \E i \in 3..Len(cmd.toks) : cmd.toks[i] = "moves"

\* Where its moves list starts.
MovesAt(toks) ==
    CHOOSE i \in 3..Len(toks) :
        toks[i] = "moves" /\ \A j \in 3..(i - 1) : toks[j] # "moves"

\* The base position the command names, in variant v.
BasePosition(toks, v) ==
    [variant |-> v,
     fen |-> IF toks[2] = "startpos" THEN startFen(v)
             ELSE SubSeq(toks, 3, MovesAt(toks) - 1),
     sfen |-> toks[2] = "sfen",
     moves |-> <<>>]

MoveList(toks) == SubSeq(toks, MovesAt(toks) + 1, Len(toks))

RECURSIVE Played(_, _, _)
\* The position after the first j tokens of ms are played from p0.
Played(p0, ms, j) ==
    IF j = 0 THEN p0
    ELSE LET before == Played(p0, ms, j - 1)
         IN  do_move(before, to_move(before, ms[j]))

\* The lengths of the prefixes of ms whose every token is a legal move in
\* the position reached by the tokens before it.
LegalPrefixes(p0, ms) ==
    {j \in 0..Len(ms) :
        \A i \in 1..j : to_move(Played(p0, ms, i - 1), ms[i]) # MOVE_NONE}

LongestLegalPrefix(p0, ms) ==
    CHOOSE k \in LegalPrefixes(p0, ms) : \A j \in LegalPrefixes(p0, ms) : j <= k

C9_BoundedOutput ==
    /\ output_buffer.hi <= OutputBufferSize - 1
    /\ output_buffer.str.len <= output_buffer.hi
    /\ \A t \in DOMAIN pc :
          (pc[t] = "returned" /\ ReturnsText(op[t]))
          => /\ ret[t].len <= OutputBufferSize - 1
             /\ path[t].exit = "unknown"
                => /\ ret[t].body = <<"Unknown command: ">> \o arg[t].text.toks \o <<"\n">>
                   /\ ret[t].len = Min(Len("Unknown command: ") + arg[t].text.len + Len("\n"),
                                       OutputBufferSize - 1)

\* An unknown command longer than the buffer has been answered with
\* exactly OutputBufferSize - 1 characters.
C9_Witness ==
    \E t \in DOMAIN pc :
        /\ pc[t] = "returned"
        /\ path[t].exit = "unknown"
        /\ arg[t].text.len = LongLen
        /\ ret[t].len = OutputBufferSize - 1
        /\ output_buffer.hi = OutputBufferSize - 1

UciLines ==
    Literal(<<"id name Fairy-Stockfish (Janggi)\n",
              "id author Fairy-Stockfish developers\n",
              "uciok\n">>)

\* C10 as stated: stockfish_command("uci") always returns the three
\* identification lines, whatever the session's state.
C10_UciAlways ==
    \A t \in DOMAIN pc :
        (pc[t] = "returned" /\ op[t] = "stockfish_command"
            /\ arg[t].text = Line(<<"uci">>))
        => ret[t] = UciLines

\* C10 amended: it returns them whenever the session is initialized and
\* the call leaves the command entry point provisioned, whatever else the
\* session's state.
C10_UciWhenProvisioned ==
    [][\A t \in DOMAIN pc :
          (BodyStep(t) /\ op[t] = "stockfish_command"
              /\ arg'[t].text = Line(<<"uci">>)
              /\ g_initialized /\ g_threads_initialized_command')
          => (pc'[t] = "returned" /\ ret'[t] = UciLines)]_vars

\* The lines have been returned on a session whose chain a search took
\* and whose variant was changed.
C10_Witness ==
    \E t \in DOMAIN pc :
        /\ pc[t] = "returned"
        /\ arg[t].text = Line(<<"uci">>)
        /\ ret[t] = UciLines
        /\ g_states = 0
        /\ Options["UCI_Variant"] = "chess"

RECURSIVE Flatten(_)
\* The characters of a text, as one string.
Flatten(lines) == IF lines = <<>> THEN "" ELSE lines[1] \o Flatten(Tail(lines))

\* Caller t's wait for its search ends in this step.
SearchStep(t) == pc[t] = "search" /\ pc'[t] # "search"

\* The score part the claim gives for score x.
ScorePart(x) ==
    IF x >= VALUE_MATE - MAX_PLY
    THEN "mate " \o ToString((VALUE_MATE - x + 1) \div 2)
    ELSE IF x <= -(VALUE_MATE - MAX_PLY)
    THEN IF (VALUE_MATE + x) \div 2 = 0 THEN "mate 0"
         ELSE "mate -" \o ToString((VALUE_MATE + x) \div 2)
    ELSE IF x < 0 THEN "cp -" \o ToString(-x)
    ELSE "cp " \o ToString(x)

\* C11: a result of stockfish_analyze is "mate N" with N = ceil(p / 2) for
\* a score p plies from mate at or above the mate threshold, "mate -N" with
\* N the full moves in the q plies left for a score q plies from being
\* mated at or below the mated threshold, "cp s" otherwise; " bestmove
\* <move>" follows exactly when the first move of the principal variation
\* is a move.
C11_ScoreFormat ==
    [][\A t \in DOMAIN pc :
          (SearchStep(t) /\ op[t] = "stockfish_analyze" /\ path'[t].exit = "result")
          => LET rm == Threads'.rootMoves
                 text == ScorePart(rm.score) \o
                         (IF rm.pv[1] # MOVE_NONE
                          THEN " bestmove " \o rm.pv[1].from \o rm.pv[1].to
                          ELSE "")
             IN  /\ pc'[t] = "returned"
                 /\ Flatten(ret'[t].body) = text
                 /\ ret'[t].len = Len(text)]_vars

\* A score one ply from mate has been reported as mate 1 with its move.
C11_Witness ==
    \E t \in DOMAIN pc :
        /\ pc[t] = "returned"
        /\ op[t] = "stockfish_analyze"
        /\ Threads.rootMoves.score = VALUE_MATE - 1
        /\ Flatten(ret[t].body) = "mate 1 bestmove b9c7"

\* C12: the position stockfish_analyze hands to the search is a function
\* of its arguments alone: the fen it was given, set up in the Janggi
\* variant with no moves made, on a fresh chain of one snapshot, with the
\* depth it was given as the only limit, whatever commands ran before.
C12_AnalyzeStateless ==
    [][\A t \in DOMAIN pc :
          (BodyStep(t) /\ op[t] = "stockfish_analyze" /\ pc'[t] = "search")
          => /\ g_pos' = [variant |-> "janggi", fen |-> arg'[t].text.toks,
                          sfen |-> FALSE, moves |-> <<>>]
             /\ Threads'.setupStates = 1
             /\ Threads'.limits = [NoLimits EXCEPT !.depth = ToString(arg'[t].depth)]]_vars

\* An analysis searches on a session whose commands had set another
\* variant and left the chain with a search.
C12_Witness ==
    \E t \in DOMAIN pc :
        /\ pc[t] = "search"
        /\ op[t] = "stockfish_analyze"
        /\ g_threads_initialized_command
        /\ Options["UCI_Variant"] = "chess"
        /\ g_pos.variant = "janggi"
        /\ g_pos.fen = FenA.toks

\* The callers whose stockfish_analyze has installed its redirect and has
\* not left yet.
Analysing == {t \in DOMAIN pc : op[t] = "stockfish_analyze" /\ pc[t] = "search"}

\* C13: std::cout writes to the discarding sink only while a caller's
\* stockfish_analyze waits for its search; in every other state, and so
\* whenever a stockfish_analyze has returned by any exit, it writes to its
\* original target.
C13_RedirectScoped ==
    /\ cout_rdbuf \in {"stdout", "g_null_buffer"}
    /\ cout_rdbuf = "g_null_buffer" <=> Analysing # {}
    /\ \A t \in Analysing : old_buf_[t] = "stdout" /\ g_engine_mutex = {t}

\* Each exit taken after the redirect was installed.
C13_Witness ==
    \E t \in DOMAIN pc :
        /\ pc[t] = "returned"
        /\ op[t] = "stockfish_analyze"
        /\ path[t].exit = "no_root_moves"
        /\ cout_rdbuf = "stdout"

C13_WitnessCaught ==
    \E t \in DOMAIN pc :
        /\ pc[t] = "returned"
        /\ op[t] = "stockfish_analyze"
        /\ path[t].exit = "exception"
        /\ Threads.setupStates = 1
        /\ tt = "dirty"
        /\ cout_rdbuf = "stdout"

\* What the first j stages of stockfish_init leave of the tables, the
\* variant registry and the options.
TablesAfter(j) ==
    tables \cup (IF j >= 1 THEN {"pieceMap"} ELSE {})
           \cup (IF j >= 5 THEN {"Bitboards"} ELSE {})
           \cup (IF j >= 6 THEN {"Position"} ELSE {})
           \cup (IF j >= 7 THEN {"PSQT"} ELSE {})

VariantsAfter(j) == IF j >= 2 THEN {"janggi", "chess"} ELSE variants

OptionsAfter(j) ==
    IF j >= 4 THEN [UCI_Variant |-> "janggi", Threads |-> "1", Hash |-> "16"]
    ELSE IF j = 3 THEN [UCI_Variant |-> "chess", Threads |-> "1", Hash |-> "16"]
    ELSE Options

\* C14: a stockfish_init on an uninitialized session is never answered by
\* the idempotence guard: it runs the stages from the first one.  When one of
\* them fails the call returns with the session uninitialized, the stages
\* before it done and kept, no later one run, and nothing else changed; so
\* every command or analysis that follows is refused as not initialized.
C14_FailedInit ==
    [][\A t \in DOMAIN pc :
        /\ (BodyStep(t) /\ ReturnsText(op[t]) /\ ~g_initialized)
           => (pc'[t] = "returned" /\ path'[t].exit = "not_initialized" /\ ~g_initialized')
        /\ (BodyStep(t) /\ op[t] = "stockfish_init" /\ ~g_initialized)
          => /\ pc'[t] = "returned"
             /\ path'[t].exit \in {"initialized", "init_failed"}
             /\ path'[t].exit = "initialized"
                => /\ g_initialized'
                   /\ tables' = TablesAfter(7)
                   /\ variants' = VariantsAfter(7)
                   /\ Options' = OptionsAfter(7)
             /\ path'[t].exit = "init_failed"
                => /\ ~g_initialized'
                   /\ \E j \in 0..6 :
                         /\ tables' = TablesAfter(j)
                         /\ variants' = VariantsAfter(j)
                         /\ Options' = OptionsAfter(j)
                   /\ UNCHANGED << g_threads_initialized_command,
                                   g_threads_initialized_analyze, g_pos, g_states,
                                   Threads, tt, cout_rdbuf, output_buffer >>]_vars

\* An initialisation has failed after the option defaults were set and
\* before Janggi was made the variant, on a process that had never been
\* initialised.
C14_Witness ==
    \E t \in DOMAIN pc :
        /\ pc[t] = "returned"
        /\ op[t] = "stockfish_init"
        /\ path[t].exit = "init_failed"
        /\ ~g_initialized
        /\ tables = {"pieceMap"}
        /\ variants = {"janggi", "chess"}
        /\ Options = [UCI_Variant |-> "chess", Threads |-> "1", Hash |-> "16"]

\* A move in coordinate notation.
Coordinates(m) == m.from \o m.to

\* C15: a "go" command answers nothing before its search has ended; then,
\* with the principal variation the search left, "bestmove <m1>" when the
\* variation has a first move m1, followed by " ponder <m2>" exactly when
\* it has a second move m2, and the empty string when the search found no
\* root move or the first move is the null move.
C15_GoResponse ==
    [][\A t \in DOMAIN pc :
        /\ (BodyStep(t) /\ op[t] = "stockfish_command" /\ path'[t].exit = "go")
           => (pc'[t] = "search" /\ ret'[t].len = 0 /\ g_engine_mutex' = {t})
        /\ (SearchStep(t) /\ op[t] = "stockfish_command" /\ path'[t].exit = "bestmove")
           => LET pv == Threads'.rootMoves.pv
                  text == IF pv = <<>> \/ pv[1] = MOVE_NONE THEN ""
                          ELSE "bestmove " \o Coordinates(pv[1]) \o
                               (IF Len(pv) >= 2 THEN " ponder " \o Coordinates(pv[2])
                                ELSE "") \o "\n"
              IN  /\ pc'[t] = "returned"
                  /\ Flatten(ret'[t].body) = text
                  /\ ret'[t].len = Len(text)]_vars

\* A search from the starting position has answered with a move and the
\* reply to it.
C15_Witness ==
    \E t \in DOMAIN pc :
        /\ pc[t] = "returned"
        /\ path[t].exit = "bestmove"
        /\ Len(Threads.rootMoves.pv) = 2
        /\ Flatten(ret[t].body) = "bestmove b0c2 ponder b9c7\n"

\* A search of a position without root moves has answered with nothing.
C15_WitnessEmpty ==
    \E t \in DOMAIN pc :
        /\ pc[t] = "returned"
        /\ path[t].exit = "bestmove"
        /\ Threads.rootMoves.pv = <<>>
        /\ ret[t].len = 0

\* Caller t's call, in this step, sets the position on the newest snapshot
\* of the chain g_states points to as the call finds it: the lazy
\* provisioning of either entry point has got as far as g_pos.set.
AttachesToChain(t) ==
    /\ BodyStep(t)
    /\ ReturnsText(op[t])
    /\ path'[t].lazy = "done" \/ pc'[t] = "crashed"

\* C16: the chain always exists, held by g_states or handed to the search,
\* with at least one snapshot, and whenever an operation sets the position
\* on the newest snapshot of the chain g_states holds, g_states holds a
\* chain of at least one snapshot at that moment.
C16_ChainNonEmptyWhenAttached ==
    [][/\ g_states' >= 1 \/ Threads'.setupStates >= 1
       /\ \A t \in DOMAIN pc : AttachesToChain(t) => g_states >= 1]_vars

\* stockfish_init creates neither the thread pool nor a position, and
\* leaves both readiness flags false when it initialises.
InitProvisionsNothing(t) ==
    (BodyStep(t) /\ op[t] = "stockfish_init")
    => /\ UNCHANGED << Threads, g_pos >>
       /\ path'[t].exit = "initialized"
          => (~g_threads_initialized_command' /\ ~g_threads_initialized_analyze')

\* A call provisions its own entry point only: when its flag is false and
\* the provisioning succeeds it sets its flag, and it leaves the other
\* entry point's flag as it was.
ProvisionsOwnEntryPoint(t) ==
    /\ (BodyStep(t) /\ op[t] = "stockfish_command")
       => /\ UNCHANGED g_threads_initialized_analyze
          /\ path'[t].lazy = "done" => g_threads_initialized_command'
    /\ (BodyStep(t) /\ op[t] = "stockfish_analyze")
       => /\ UNCHANGED g_threads_initialized_command
          /\ path'[t].lazy = "done" => g_threads_initialized_analyze'

\* An entry point provisions only while its flag is false, and its flag,
\* once true, stays true for as long as the session stays initialized.
ProvisionsOnce(t) ==
    /\ (BodyStep(t) /\ ReturnsText(op[t]) /\ g_initialized)
       => (path'[t].lazy \in {"done", "failed"} <=> ~ReadyFlag(t))
    /\ (g_initialized /\ g_initialized')
       => /\ g_threads_initialized_command => g_threads_initialized_command'
          /\ g_threads_initialized_analyze => g_threads_initialized_analyze'

\* After stockfish_cleanup on an initialized session both flags are false
\* and the session is uninitialized, so that the stockfish_init that
\* follows initialises and both entry points provision again.
CleanupUnprovisions(t) ==
    (BodyStep(t) /\ op[t] = "stockfish_cleanup" /\ g_initialized)
    => /\ ~g_initialized'
       /\ ~g_threads_initialized_command'
       /\ ~g_threads_initialized_analyze'

\* C17: readiness is per entry point and provisioning is lazy:
\* stockfish_init provisions nothing and leaves both flags false; a call
\* provisions and flags its own entry point only; within one lifecycle an
\* entry point provisions once; and stockfish_cleanup followed by
\* stockfish_init makes both provision again.
C17_LazyPerEntryPoint ==
    [][\A t \in DOMAIN pc :
          /\ InitProvisionsNothing(t)
          /\ ProvisionsOwnEntryPoint(t)
          /\ ProvisionsOnce(t)
          /\ CleanupUnprovisions(t)]_vars

\* The commands that change nothing, and the response of each.
InertResponse(cmd) ==
    CASE cmd.toks = <<>> -> Literal(<<>>)
      [] cmd.toks = <<"isready">> -> Literal(<<"readyok\n">>)
      [] cmd.toks = <<"uci">> -> UciLines
      [] OTHER -> [body |-> <<"Unknown command: ">> \o cmd.toks \o <<"\n">>,
                   len |-> Len("Unknown command: ") + cmd.len + Len("\n")]

IsInert(cmd) ==
    /\ ~cmd.null
    /\ \/ cmd.toks = <<>>
       \/ cmd.toks[1] \notin {"position", "go", "setoption", "ucinewgame", "quit"}

\* Caller t's stockfish_command of an inert command runs to its response
\* in this step, on an initialized session.
InertStep(t) ==
    /\ BodyStep(t)
    /\ op[t] = "stockfish_command"
    /\ g_initialized
    /\ IsInert(arg'[t].text)
    /\ path'[t].exit \in {"isready", "uci", "empty", "unknown"}

\* C18 as stated: isready, uci, the empty or blank command and an
\* unrecognized command leave the position, the chain, the options and the
\* stop flag as they were, on every call, the first of a lifecycle
\* included, and answer readyok, the uci lines, nothing, and
\* "Unknown command: <line>".
C18_InertCommands ==
    [][\A t \in DOMAIN pc :
          InertStep(t)
          => /\ pc'[t] = "returned"
             /\ ret'[t] = InertResponse(arg'[t].text)
             /\ UNCHANGED << g_pos, g_states, Options >>
             /\ Threads'.stop = Threads.stop]_vars

\* C18 amended: they do so on every call made once the command entry point
\* is provisioned, and then change nothing of the session at all; the first
\* stockfish_command call of a lifecycle provisions first, which sets the
\* position to the Janggi starting position, and leaves the chain, the
\* options and the stop flag as they were.
C18_InertOnceProvisioned ==
    [][\A t \in DOMAIN pc :
          InertStep(t)
          => /\ pc'[t] = "returned"
             /\ ret'[t] = InertResponse(arg'[t].text)
             /\ UNCHANGED << g_states, Options >>
             /\ Threads'.stop = Threads.stop
             /\ g_threads_initialized_command
                => UNCHANGED << g_initialized, g_threads_initialized_command,
                                g_threads_initialized_analyze, old_cout_streambuf,
                                cout_rdbuf, g_pos, Threads, tt, tables, variants >>
             /\ ~g_threads_initialized_command
                => g_pos' = [variant |-> "janggi", fen |-> <<"janggi-start", "w">>,
                             sfen |-> FALSE, moves |-> <<>>]]_vars

\* An unrecognized command has been answered on a session with a move
\* played, a search run and the stop flag set.
C18_Witness ==
    \E t \in DOMAIN pc :
        /\ pc[t] = "returned"
        /\ path[t] = [lazy |-> "skipped", exit |-> "unknown"]
        /\ ret[t] = InertResponse(Line(<<"invalid_command">>))
        /\ Len(g_pos.moves) = 1
        /\ Threads.stop
        /\ tt = "dirty"

\* The callers whose call waits for the search it started.
Searching == {t \in DOMAIN pc : pc[t] = "search"}

\* C19: while a search started by go or stockfish_analyze is in flight its
\* caller holds the lock and no other caller is inside an operation; a
\* step taken meanwhile changes the session only by ending that search;
\* the stop flag is set only by quit and only when no search is in flight
\* (quit on a provisioned session changes nothing else), so an infinite
\* search is never stopped; and a search ends only when its limits are
\* reached or the stop flag is set.
C19_LockHeldDuringSearch ==
    [][/\ \A t \in Searching :
             /\ g_engine_mutex = {t}
             /\ \A u \in DOMAIN pc \ {t} : pc[u] \notin {"body", "search"}
             /\ pc'[t] # "search" => (Threads.limits.infinite = "0" \/ Threads.stop)
             /\ Threads.limits.infinite = "1" => ~Threads.stop
       /\ (Searching # {} /\ session_vars' # session_vars)
          => \E t \in Searching : pc'[t] # "search"
       /\ (~Threads.stop /\ Threads'.stop)
          => /\ Searching = {}
             /\ \E t \in DOMAIN pc : BodyStep(t) /\ path'[t].exit = "quit"
             /\ g_threads_initialized_command
                => UNCHANGED << g_pos, g_states, Options, tt >>]_vars

\* An infinite search is in flight, started after another caller's quit
\* had returned.
C19_Witness ==
    \E t, u \in DOMAIN pc :
        /\ pc[t] = "search"
        /\ Threads.limits.infinite = "1"
        /\ pc[u] \in {"returned", "read"}
        /\ path[u].exit = "quit"

\* The Janggi variant's starting layout, no move made.
JanggiStart ==
    [variant |-> "janggi", fen |-> <<"janggi-start", "w">>, sfen |-> FALSE,
     moves |-> <<>>]

\* C20: a stockfish_command call that takes the ucinewgame branch to its end
\* returns "ok" and leaves the search state cleared, g_states a fresh chain of
\* one snapshot and the position the Janggi starting layout with no moves,
\* whatever the position, the moves and the UCI_Variant option were before;
\* the option registry and the chain the search threads hold are untouched.
C20_NewGameResets ==
    [][\A t \in DOMAIN pc :
          (BodyStep(t) /\ op[t] = "stockfish_command" /\ path'[t].exit = "ucinewgame")
          => /\ pc'[t] = "returned"
             /\ ret'[t] = Literal(<<"ok\n">>)
             /\ tt' = "clear"
             /\ g_states' = 1
             /\ g_pos' = JanggiStart
             /\ Options' = Options
             /\ Threads'.setupStates = Threads.setupStates
             /\ g_threads_initialized_command']_vars

\* A new game was started after a search had taken a chain over and with the
\* UCI_Variant option naming another variant.
C20_Witness ==
    \E t \in DOMAIN pc :
        /\ pc[t] = "returned"
        /\ path[t] = [lazy |-> "skipped", exit |-> "ucinewgame"]
        /\ ret[t] = Literal(<<"ok\n">>)
        /\ Options["UCI_Variant"] # "janggi"
        /\ Threads.setupStates >= 1
        /\ g_pos = JanggiStart /\ g_states = 1 /\ tt = "clear"

\* C21: in every reachable state a readiness flag that is set belongs to an
\* initialized session: g_threads_initialized_command or
\* g_threads_initialized_analyze implies g_initialized.
C21_ReadyImpliesInitialized ==
    (g_threads_initialized_command \/ g_threads_initialized_analyze) => g_initialized

\* A cleanup whose exception was swallowed returned on a session with both
\* entry points provisioned.
C21_Witness ==
    \E t \in DOMAIN pc :
        /\ pc[t] = "returned" /\ op[t] = "stockfish_cleanup"
        /\ path[t].exit = "swallowed"
        /\ g_threads_initialized_command /\ g_threads_initialized_analyze
        /\ g_initialized

\* The position stockfish_analyze sets up from fen.
AnalysedPosition(fen) ==
    [variant |-> "janggi", fen |-> fen.toks, sfen |-> FALSE, moves |-> <<>>]

\* The first token of the command caller t passes in this step.
CommandToken(t) ==
    IF arg'[t].text.null \/ arg'[t].text.toks = <<>> THEN "" ELSE arg'[t].text.toks[1]

\* An analysis by t reaches its search: the position was set up.
AnalysisSetUp(t) == BodyStep(t) /\ op[t] = "stockfish_analyze" /\ pc'[t] = "search"

\* The variation a finished search reports starts with a legal move of pos.
SearchedPosition(pos) ==
    LET pv == Threads'.rootMoves.pv
    IN  (pv # <<>> /\ pv[1] # MOVE_NONE) => pv[1] \in LegalMoves(pos)

\* The position text the analyses of Spec are given.
AnalysedFens == {fen \in LifecycleInputs.fens : ~fen.null}

\* The session holds a position an analysis set up (no command of Spec sets
\* up a position on these boards).
HoldsAnalysed == \E fen \in AnalysedFens : g_pos = AnalysedPosition(fen)

\* C22 as stated: an analysis that reaches its position set-up leaves g_pos
\* the position given by fen; while the session holds an analysed position
\* only another stockfish_analyze or a "position" or "ucinewgame" command
\* changes it, so a "go" command leaves it as it is and its search answers
\* with a move of that position.
C22_SharedPosition ==
    [][/\ \A t \in DOMAIN pc :
            /\ AnalysisSetUp(t) => g_pos' = AnalysedPosition(arg'[t].text)
            /\ (BodyStep(t) /\ op[t] = "stockfish_command" /\ CommandToken(t) = "go"
                  /\ HoldsAnalysed)
               => g_pos' = g_pos
            /\ (SearchStep(t) /\ op[t] = "stockfish_command" /\ path'[t].exit = "bestmove")
               => (g_pos' = g_pos /\ SearchedPosition(g_pos))
       /\ (HoldsAnalysed /\ g_pos' # g_pos)
          => \E t \in DOMAIN pc :
                /\ BodyStep(t)
                /\ \/ op[t] = "stockfish_analyze"
                   \/ op[t] = "stockfish_command"
                      /\ CommandToken(t) \in {"position", "ucinewgame"}]_vars

\* C22 amended: the same, for commands on a session whose command entry point
\* is provisioned; the lazy initialisation of the first stockfish_command of
\* a lifecycle is the other step that changes the analysed position.
C22_SharedPositionOnceProvisioned ==
    [][/\ \A t \in DOMAIN pc :
            /\ AnalysisSetUp(t) => g_pos' = AnalysedPosition(arg'[t].text)
            /\ (BodyStep(t) /\ op[t] = "stockfish_command" /\ CommandToken(t) = "go"
                  /\ HoldsAnalysed /\ g_threads_initialized_command)
               => g_pos' = g_pos
            /\ (SearchStep(t) /\ op[t] = "stockfish_command" /\ path'[t].exit = "bestmove")
               => (g_pos' = g_pos /\ SearchedPosition(g_pos))
       /\ (HoldsAnalysed /\ g_pos' # g_pos)
          => \E t \in DOMAIN pc :
                /\ BodyStep(t)
                /\ \/ op[t] = "stockfish_analyze"
                   \/ op[t] = "stockfish_command"
                      /\ \/ ~g_threads_initialized_command
                         \/ CommandToken(t) \in {"position", "ucinewgame"}]_vars

\* A go on a provisioned command entry point has searched the position an
\* analysis set up and answered with one of its moves.
C22_Witness ==
    \E t \in DOMAIN pc :
        /\ pc[t] = "returned" /\ op[t] = "stockfish_command"
        /\ path[t] = [lazy |-> "skipped", exit |-> "bestmove"]
        /\ g_pos = AnalysedPosition(FenA)
        /\ Threads.rootMoves.pv # <<>>
        /\ Threads.rootMoves.pv[1] \in LegalMoves(AnalysedPosition(FenA))
        /\ ret[t].len > 0

\* The text a null argument is answered with.
NullResponse(o) ==
    IF o = "stockfish_command" THEN Literal(<<"error: Null command">>)
    ELSE Literal(<<"error: Null FEN">>)

\* The entry point o has done its lazy initialisation.
Provisioned(o) ==
    IF o = "stockfish_command" THEN g_threads_initialized_command
    ELSE g_threads_initialized_analyze

\* Caller t passes a null pointer to an entry point that returns text.
NullCall(t) == BodyStep(t) /\ ReturnsText(op[t]) /\ arg'[t].text.null

=============================================================================
